---- MODULE Spec2Model ----
(***************************************************************************)
(* Store status tracker: the per-tab parallel orchestration of store       *)
(* checks (monitor_parallel_tabs.py) and the periodic runner with its lock *)
(* marker (pos_tracker/run_every_15m.py).                                  *)
(*                                                                         *)
(* Text is modelled as a sequence of tokens: the token " " is whitespace,  *)
(* every other token is a run of non-blank characters.  The empty string   *)
(* is the empty sequence.                                                  *)
(***************************************************************************)
EXTENDS Integers, Sequences, FiniteSets, TLC

\* ------------------------------------------------------------------ bounds

\* Largest value of the MAX_WORKERS environment setting that is explored.
MaxConfigured == 2
\* Number of runs of the tracker over the same spreadsheet (CycleSpec).
MaxCycles == 2
\* Number of periodic-runner processes sharing the lock marker (LockSpec).
NumRunners == 2
\* Last tick of the wall clock of LockSpec.
MaxClock == 5

\* ------------------------------------------------------------------- text

WS == " "

Max(a, b) == IF a >= b THEN a ELSE b

RECURSIVE lstripWs(_)
lstripWs(s) == IF s # <<>> /\ Head(s) = WS THEN lstripWs(Tail(s)) ELSE s

RECURSIVE rstripWs(_)
rstripWs(s) ==
    IF s # <<>> /\ s[Len(s)] = WS THEN rstripWs(SubSeq(s, 1, Len(s) - 1)) ELSE s

\* str.strip()
strip(s) == rstripWs(lstripWs(s))

UpperCase == <<"A", "B", "C", "D", "E", "F", "G", "H", "I", "J", "K", "L", "M",
               "N", "O", "P", "Q", "R", "S", "T", "U", "V", "W", "X", "Y", "Z">>

LowerCase == <<"a", "b", "c", "d", "e", "f", "g", "h", "i", "j", "k", "l", "m",
               "n", "o", "p", "q", "r", "s", "t", "u", "v", "w", "x", "y", "z">>

Digits == {"0", "1", "2", "3", "4", "5", "6", "7", "8", "9"}

\* str.lower() of one character
lowerChar(c) ==
    IF \E i \in 1..Len(UpperCase) : UpperCase[i] = c
    THEN LowerCase[CHOOSE i \in 1..Len(UpperCase) : UpperCase[i] = c]
    ELSE c

\* str.lower() of one token: a word of the sheet, or a single character
lowerTok(t) ==
    CASE t = "Brand"     -> "brand"
      [] t = "LOCATION"  -> "location"
      [] t = "Location"  -> "location"
      [] t = "Aggregator" -> "aggregator"
      [] t = "Link"      -> "link"
      [] t = "LINK"      -> "link"
      [] t = "Latitude"  -> "latitude"
      [] t = "Longitude" -> "longitude"
      [] t = "Swiggy"    -> "swiggy"
      [] t = "SWIGGY"    -> "swiggy"
      [] t = "Zomato"    -> "zomato"
      [] OTHER           -> lowerChar(t)

\* str.lower()
lower(s) == [i \in 1..Len(s) |-> lowerTok(s[i])]

\* str.lstrip("/")
RECURSIVE lstripSlash(_)
lstripSlash(s) == IF s # <<>> /\ Head(s) = "/" THEN lstripSlash(Tail(s)) ELSE s

\* ----------------------------------------------------------- the worksheet

\* A worksheet is a sequence of rows, a row a sequence of cells, a cell a text.
\* ws.row_values(n)
row_values(grid, n) == IF n <= Len(grid) THEN grid[n] ELSE <<>>

\* The cell (r, c) as the sheet shows it: blank outside the stored area.
CellAt(grid, r, c) ==
    IF r <= Len(grid) /\ c <= Len(grid[r]) THEN grid[r][c] ELSE <<>>

PadRow(row, c) == [j \in 1..Max(Len(row), c) |-> IF j <= Len(row) THEN row[j] ELSE <<>>]

\* ws.update_cell(r, c, v): the sheet grows as needed.
update_cell(grid, r, c, v) ==
    LET tall == [i \in 1..Max(Len(grid), r) |-> IF i <= Len(grid) THEN grid[i] ELSE <<>>]
    IN [tall EXCEPT ![r] = [PadRow(tall[r], c) EXCEPT ![c] = v]]

RECURSIVE batch_update(_, _)
\* ws.batch_update(updates): every {range, values} entry sets one cell.
batch_update(grid, updates) ==
    IF updates = <<>> THEN grid
    ELSE batch_update(update_cell(grid, updates[1].row, updates[1].col, updates[1].value),
                      Tail(updates))

wanted == <<"brand", "location", "aggregator", "link", "latitude", "longitude">>

\* lowers = [c.strip().lower() for c in row]
lowers(row) == [j \in 1..Len(row) |-> lower(strip(row[j]))]

\* lowers.index(name) + 1: the first column holding the name (1-based).
IndexOf(ls, name) == CHOOSE j \in 1..Len(ls) : ls[j] = <<name>> /\ \A k \in 1..(j - 1) : ls[k] # <<name>>

\* all(w in lowers for w in wanted)
IsHeader(row) ==
    LET ls == lowers(row)
    IN \A w \in 1..Len(wanted) : \E j \in 1..Len(ls) : ls[j] = <<wanted[w]>>

HasHeader(all_values) == \E i \in 1..Len(all_values) : IsHeader(all_values[i])

\* find_header_row_and_columns: the first row holding every wanted name.
\* (No such row: SystemExit, see OpenTab.)
find_header_row(all_values) ==
    CHOOSE i \in 1..Len(all_values) :
        IsHeader(all_values[i]) /\ \A k \in 1..(i - 1) : ~IsHeader(all_values[k])

NoCols ==
    [brand |-> 0, location |-> 0, aggregator |-> 0, link |-> 0, latitude |-> 0, longitude |-> 0]

find_columns(all_values) ==
    LET ls == lowers(all_values[find_header_row(all_values)])
    IN [brand |-> IndexOf(ls, "brand"), location |-> IndexOf(ls, "location"),
        aggregator |-> IndexOf(ls, "aggregator"), link |-> IndexOf(ls, "link"),
        latitude |-> IndexOf(ls, "latitude"), longitude |-> IndexOf(ls, "longitude")]

is_empty_mut(grid, col) ==
    LET row1 == row_values(grid, 1)
        row2 == row_values(grid, 2)
        v1 == IF col < Len(row1) THEN row1[col + 1] ELSE <<>>
        v2 == IF col < Len(row2) THEN row2[col + 1] ELSE <<>>
    IN strip(v1) = <<>> /\ strip(v2) = <<>>

\* is_empty(col) of first_empty_log_column: rows 1 and 2 both blank there.
is_empty(grid, col) ==
    LET row1 == row_values(grid, 1)
        row2 == row_values(grid, 2)
        v1 == IF col - 1 < Len(row1) THEN row1[col] ELSE <<>>
        v2 == IF col - 1 < Len(row2) THEN row2[col] ELSE <<>>
    IN strip(v1) = <<>> /\ strip(v2) = <<>>

RECURSIVE first_empty_log_column(_, _)
\* The scan col = start_col; while True: if is_empty(col): return col; col += 1
first_empty_log_column(grid, start_col) ==
    IF is_empty(grid, start_col) THEN start_col
    ELSE first_empty_log_column(grid, start_col + 1)

\* ------------------------------------------------------- sample worksheets

HeaderPlain ==
    << <<" ", "Brand">>, <<"Location">>, <<"Aggregator">>, <<"Link">>,
       <<"Latitude">>, <<"Longitude", " ">> >>

HeaderShuffled ==
    << <<"LOCATION">>, <<"brand">>, <<"aggregator">>, <<"LINK", " ">>,
       <<"latitude">>, <<"longitude">> >>

\* Header in row 1; row 2 is data the job loop skips; row 4 has a blank link.
GridTop ==
    << HeaderPlain,
       << <<"B0">>, <<"L0">>, <<"Zomato">>, <<"https://", "zo/0">>, <<"12.9">>, <<"77.6">> >>,
       << <<"B1">>, <<"L1">>, <<" ", "Swiggy">>, <<"https://", "sw/1">>, <<"12.9">>, <<"77.6">> >>,
       << <<"B2">>, <<"L2">>, <<"Zomato">>, <<" ">>, <<>>, <<>> >> >>

\* Header in row 3 under two stamp rows: column 7 was stamped by an earlier
\* cycle, column 8 carries a note in row 2 only.  Row 6 is a short row.
GridLow ==
    << << <<>>, <<>>, <<>>, <<>>, <<>>, <<>>, <<"2026-11-02">> >>,
       << <<>>, <<>>, <<>>, <<>>, <<>>, <<>>, <<"09:00:00">>, <<"note">> >>,
       HeaderShuffled,
       << <<"L3">>, <<"B3">>, <<"zomato">>, <<"/", "zo/3">>, <<"x">>, <<"77.6">>, <<"Closed">> >>,
       << <<"L4">>, <<"B4">>, <<"SWIGGY">>, <<"http://", "sw/4">>, <<"12.9">>, <<"77.6">>, <<"Available">> >>,
       << <<"L5">>, <<"B5">> >> >>

\* No row holds all six names.
GridNoHeader == << << <<"Brand">>, <<"Link">> >>, << <<"B1">>, <<"https://", "sw/1">> >> >>

GridEmpty == << >>

SampleGrids == {GridTop, GridLow, GridNoHeader, GridEmpty}

TabNames == {"T1", "T2"}

\* ------------------------------------------------------------------ state

VARIABLES
    MAX_WORKERS,   \* the pool size, max(1, configured value)
    tabs,          \* the tab names main() iterates over
    sheet,         \* the spreadsheet: tab name -> worksheet grid
    cycle,         \* number of the current run of the tracker
    pc,            \* where main() / process_one_tab() stands
    ti,            \* index in tabs of the tab being (or next to be) processed
    all_vals,      \* process_one_tab: the grid read at the start
    header_row,    \* process_one_tab: the row of the header (0: not found yet)
    cols,          \* process_one_tab: the 1-based column of each wanted name
    log_col,       \* process_one_tab: the column chosen for this cycle (0: none yet)
    jobs,          \* process_one_tab: sequence of <<row, payload>>
    ji,            \* index of the next job of the submit loop
    results,       \* process_one_tab: row -> outcome text
    queue,         \* the pool's work queue: rows of submitted, not yet started checks
    chk,           \* future_map with the state of each submitted check, by row
    yielded,       \* rows whose future as_completed has already yielded
    sessions,      \* the browser sessions that are open, each <<tab index, row, attempt>>
    printed,       \* "[tab] Failed: ..." lines of main(), as tab indices
    exitKind,      \* how the process ended: "none", "done" or "SystemExit"
    attemptLog,    \* history: row -> the outcomes of the attempts made for it
    invoked,       \* history: indices of the tabs process_one_tab was called for
    allocs,        \* history: tab name -> the log columns chosen so far, in order,
                   \*   each with the stamps written to it (0, 1: date, 2: date and time)
    runner,        \* LockSpec: the position of each periodic runner
    lock,          \* LockSpec: the lock marker: [exists, mtime]
    clock,         \* LockSpec: the wall clock
    page,          \* ExtractSpec: the element texts each locator group finds
    aggregator,    \* ExtractSpec: scrape_store's aggregator argument
    xpc,           \* ExtractSpec: where the extraction of scrape_store stands
    status_texts,  \* scrape_store: extract_texts of the status locators
    eta_texts,     \* scrape_store: extract_texts of the ETA locators
    sold_out,      \* scrape_store: the sold-out count (Swiggy only)
    status,        \* scrape_store: infer_status(status_texts)
    eta,           \* scrape_store: parse_eta_from_text(eta_texts)
    compact        \* scrape_store: the string returned

trackerVars ==
    <<MAX_WORKERS, tabs, sheet, cycle, pc, ti, all_vals, header_row, cols, log_col, jobs,
      ji, results, queue, chk, yielded, sessions, printed, exitKind, attemptLog, invoked, allocs>>

lockVars == <<runner, lock, clock>>

extractVars ==
    <<page, aggregator, xpc, status_texts, eta_texts, sold_out, status, eta, compact>>

vars == <<trackerVars, lockVars, extractVars>>

\* ------------------------------------------------ building a tab's jobs

Missing == <<"Missing link/aggregator">>

NumericToks == {"12.9", "77.6"}

\* to_float: the number, or None when the cell is blank or not a number.
to_float(x) ==
    LET s == strip(x) IN IF Len(s) = 1 /\ s[1] \in NumericToks THEN s[1] ELSE "None"

\* getv(ci) of the job loop
getv(row_vals, ci) == IF ci - 1 < Len(row_vals) THEN row_vals[ci] ELSE <<>>

JobOfRow_mut(row_vals, cs) ==
    LET agg  == strip(getv(row_vals, cs.aggregator))
        link == getv(row_vals, cs.link)
        lat  == to_float(getv(row_vals, cs.latitude))
        lng  == to_float(getv(row_vals, cs.longitude))
    IN IF agg = <<>> \/ link = <<>>
       THEN [tuple |-> FALSE, text |-> Missing, agg |-> <<>>, link |-> <<>>,
             lat |-> "None", lng |-> "None"]
       ELSE [tuple |-> TRUE, text |-> <<>>, agg |-> agg, link |-> link,
             lat |-> lat, lng |-> lng]

\* The payload of one row: the message, or the tuple (agg, link, lat, lng).
JobOfRow(row_vals, cs) ==
    LET agg  == strip(getv(row_vals, cs.aggregator))
        link == strip(getv(row_vals, cs.link))
        lat  == to_float(getv(row_vals, cs.latitude))
        lng  == to_float(getv(row_vals, cs.longitude))
    IN IF agg = <<>> \/ link = <<>>
       THEN [tuple |-> FALSE, text |-> Missing, agg |-> <<>>, link |-> <<>>,
             lat |-> "None", lng |-> "None"]
       ELSE [tuple |-> TRUE, text |-> <<>>, agg |-> agg, link |-> link,
             lat |-> lat, lng |-> lng]

BuildJobs_mut(vals, hdr, cs) ==
    LET first == hdr + 1
        n     == Max(0, Len(vals) + 1 - first)
    IN [k \in 1..n |->
          [row |-> first + k - 1, payload |-> JobOfRow(vals[first + k - 1], cs)]]

\* for r in range(max(3, header_row + 1), len(all_vals) + 1): jobs.append(...)
BuildJobs(vals, hdr, cs) ==
    LET first == Max(3, hdr + 1)
        n     == Max(0, Len(vals) + 1 - first)
    IN [k \in 1..n |->
          [row |-> first + k - 1, payload |-> JobOfRow(vals[first + k - 1], cs)]]

JobRows(js) == {js[k].row : k \in 1..Len(js)}

\* ----------------------------------------------------- one store check

\* stop_after_attempt(2)
RetryBudget == 2

\* if not url.startswith("http"): url = "https://" + url.lstrip("/")
NormalizeUrl(url) ==
    IF url # <<>> /\ Head(url) \in {"http://", "https://"} THEN url
    ELSE <<"https://">> \o lstripSlash(url)

\* What the locators and the extractor find on a loaded page.
Pages ==
    { [status |-> <<"Closed">>, eta |-> <<>>, sold_out |-> 0],
      [status |-> <<"Available">>, eta |-> <<"25-30", " ", "mins">>, sold_out |-> 3] }

CountTok(n) == CASE n = 1 -> "1" [] n = 2 -> "2" [] n = 3 -> "3" [] OTHER -> "n"

Compact_mut(agg, pg) ==
    LET base == IF pg.eta = <<>> THEN pg.status
                ELSE pg.status \o <<" ", "|", " ">> \o pg.eta
    IN IF Head(lower(agg)) = "swiggy"
       THEN base \o <<" ", "|", " ", "SO:", CountTok(pg.sold_out)>>
       ELSE base

\* The compact string scrape_store returns for a loaded page.
Compact(agg, pg) ==
    LET base == IF pg.eta = <<>> THEN pg.status
                ELSE pg.status \o <<" ", "|", " ">> \o pg.eta
    IN IF Head(lower(agg)) = "swiggy"
       THEN IF pg.sold_out # 0
            THEN base \o <<" ", "|", " ", "SO:", CountTok(pg.sold_out)>>
            ELSE base
       ELSE base

\* The exception classes that "except Exception" catches.
IsException(kind) == kind \in {"RetryError", "APIError", "WebDriverException"}

Running == {r \in DOMAIN chk : chk[r].st \in {"driver", "page"}}

Sid(r) == <<ti, r, chk[r].attempt>>

AfterFailure_more(c) ==
    IF c.attempt <= RetryBudget
    THEN [c EXCEPT !.st = "driver", !.attempt = c.attempt + 1]
    ELSE [c EXCEPT !.st = "done", !.fut = "exception", !.value = <<"RetryError">>]

AfterFailure_mut(c) == [c EXCEPT !.st = "done", !.fut = "exception", !.value = <<"RetryError">>]

\* An attempt of the check of row r ended in an exception: tenacity runs the
\* next attempt while the budget lasts, else the future fails with RetryError.
AfterFailure(c) ==
    IF c.attempt < RetryBudget
    THEN [c EXCEPT !.st = "driver", !.attempt = c.attempt + 1]
    ELSE [c EXCEPT !.st = "done", !.fut = "exception", !.value = <<"RetryError">>]

\* ------------------------------------------------------- the extraction

\* Texts of page elements are sequences of characters.
\* sub in s
Contains(s, sub) ==
    \E i \in 1..(Len(s) - Len(sub) + 1) : SubSeq(s, i, i + Len(sub) - 1) = sub

\* s[:n]
Take(s, n) == SubSeq(s, 1, IF Len(s) < n THEN Len(s) ELSE n)

RECURSIVE Join(_, _)
\* sep.join(texts)
Join(texts, sep) ==
    IF texts = <<>> THEN <<>>
    ELSE IF Len(texts) = 1 THEN texts[1]
    ELSE texts[1] \o sep \o Join(Tail(texts), sep)

Bar == <<" ", "|", " ">>

\* \w and \s of the re module, over the characters that occur
IsWord(c) == c \in Digits \/ (\E i \in 1..Len(LowerCase) : LowerCase[i] = c \/ UpperCase[i] = c) \/ c = "_"

Spaces == {WS}

RECURSIVE SkipWhile(_, _, _)
\* The first position from i on whose character is not in the class (greedy *)
SkipWhile(s, i, class) ==
    IF i <= Len(s) /\ s[i] \in class THEN SkipWhile(s, i + 1, class) ELSE i

\* [0-9:\sapm\.]
TimeChars == Digits \cup Spaces \cup {":", "a", "p", "m", "."}

\* The literal w stands in s at position i
LitAt(s, i, w) == i + Len(w) - 1 <= Len(s) /\ SubSeq(s, i, i + Len(w) - 1) = w

\* opens?\s+at\s+([0-9:\sapm\.]+) matched at position i of s: the span of
\* group 1 as <<from, to>>, or <<>> without a match.  \s+ is greedy and gives
\* back one blank when the class would otherwise match nothing.
OpensAtMatch(s, i) ==
    IF ~LitAt(s, i, <<"o", "p", "e", "n">>) THEN <<>>
    ELSE LET a == IF LitAt(s, i + 4, <<"s">>) THEN i + 5 ELSE i + 4
             b == SkipWhile(s, a, Spaces)
         IN IF b = a \/ ~LitAt(s, b, <<"a", "t">>) THEN <<>>
            ELSE LET c == b + 2
                     d == SkipWhile(s, c, Spaces)
                     e == SkipWhile(s, d, TimeChars)
                 IN IF d = c THEN <<>>
                    ELSE IF e > d THEN <<d, e - 1>>
                    ELSE IF d - c >= 2 THEN <<d - 1, d - 1>>
                    ELSE <<>>

infer_status_mut(texts) ==
    LET j == Join([k \in 1..Len(texts) |-> lower(texts[k])], Bar)
        hits == {i \in 1..Len(j) : OpensAtMatch(j, i) # <<>>}
    IN IF hits # {}
       THEN LET m == OpensAtMatch(j, CHOOSE i \in hits : \A k \in hits : i <= k)
            IN <<"Opens", " ", "at", " ">> \o strip(SubSeq(j, m[1], m[2]))
       ELSE IF Contains(j, <<"c", "l", "o", "s", "e", "d">>)
       THEN <<"Closed">>
       ELSE IF Contains(j, <<"n", "o", "t", " ", "a", "c", "c", "e", "p", "t", "i", "n", "g">>)
       THEN <<"Not", " ", "accepting", " ", "orders">>
       ELSE <<"Available">>

\* infer_status: the rules over the lower-cased texts joined by " | "
infer_status(texts) ==
    LET j == Join([k \in 1..Len(texts) |-> lower(texts[k])], Bar)
        hits == {i \in 1..Len(j) : OpensAtMatch(j, i) # <<>>}
    IN IF Contains(j, <<"c", "l", "o", "s", "e", "d">>)
       THEN <<"Closed">>
       ELSE IF Contains(j, <<"n", "o", "t", " ", "a", "c", "c", "e", "p", "t", "i", "n", "g">>)
       THEN <<"Not", " ", "accepting", " ", "orders">>
       ELSE IF hits # {}
       THEN LET m == OpensAtMatch(j, CHOOSE i \in hits : \A k \in hits : i <= k)
            IN <<"Opens", " ", "at", " ">> \o strip(SubSeq(j, m[1], m[2]))
       ELSE <<"Available">>

\* The en dash U+2013, one character
EnDash == "ndash"

\* ETA_PAT, \b(\d+)\s*(?:ndash|-|to)?\s*(\d+)?\s*mins?\b with re.I, matched at
\* position i of s: the position of the last character of the match, 0
\* without a match.
EtaMatchEnd(s, i) ==
    IF ~(i <= Len(s) /\ s[i] \in Digits /\ (i = 1 \/ ~IsWord(s[i - 1]))) THEN 0
    ELSE LET a == SkipWhile(s, i, Digits)
             b == SkipWhile(s, a, Spaces)
             c == IF LitAt(s, b, <<"-">>) \/ LitAt(s, b, <<EnDash>>) THEN b + 1
                  ELSE IF LitAt(lower(s), b, <<"t", "o">>) THEN b + 2
                  ELSE b
             d == SkipWhile(s, c, Spaces)
             e == SkipWhile(s, d, Digits)
             f == SkipWhile(s, e, Spaces)
         IN IF ~LitAt(lower(s), f, <<"m", "i", "n">>) THEN 0
            ELSE LET g == IF LitAt(lower(s), f + 3, <<"s">>) THEN f + 4 ELSE f + 3
                 IN IF g > Len(s) \/ ~IsWord(s[g]) THEN g - 1 ELSE 0

RECURSIVE EtaFindIter(_, _)
\* ETA_PAT.finditer(t) from position i on: the matches in order, none
\* overlapping another
EtaFindIter(s, i) ==
    IF i > Len(s) THEN <<>>
    ELSE LET e == EtaMatchEnd(s, i)
         IN IF e = 0 THEN EtaFindIter(s, i + 1)
            ELSE <<strip(SubSeq(s, i, e))>> \o EtaFindIter(s, e + 1)

RECURSIVE EtaHits(_)
EtaHits(texts) ==
    IF texts = <<>> THEN <<>> ELSE EtaFindIter(texts[1], 1) \o EtaHits(Tail(texts))

\* parse_eta_from_text: the hits of every text, else those of the joined
\* texts; the first of the shortest hits (list.sort is stable)
parse_eta_from_text(texts) ==
    LET own  == EtaHits(texts)
        hits == IF own # <<>> THEN own ELSE EtaFindIter(Join(texts, Bar), 1)
    IN IF hits = <<>> THEN <<>>
       ELSE hits[CHOOSE i \in 1..Len(hits) :
                    /\ \A k \in 1..Len(hits) : Len(hits[i]) <= Len(hits[k])
                    /\ \A k \in 1..(i - 1) : Len(hits[k]) > Len(hits[i])]

DefaultMaxElems == 60
SoldOutMaxElems == 300

RECURSIVE Dedup(_, _)
\* The loop body of extract_texts: t = e.text.strip(); kept when it is not
\* empty and not yet seen
Dedup(elems, out) ==
    IF elems = <<>> THEN out
    ELSE LET t == strip(elems[1])
         IN Dedup(Tail(elems),
                  IF t # <<>> /\ ~(\E k \in 1..Len(out) : out[k] = t) THEN Append(out, t) ELSE out)

\* extract_texts(driver, locs, max_elems) over the elements the locators of a
\* group find on the page
extract_texts(elems, max_elems) == Dedup(Take(elems, max_elems), <<>>)

\* ------------------------------------------------------ main() and a tab

NoRows == [r \in {} |-> <<>>]

Today == <<"2026-11-03">>
NowTime == <<"09:15:07">>

\* The loop of main() moves to the next tab, or main() returns.
Leave ==
    /\ ti' = ti + 1
    /\ pc' = IF ti + 1 > Len(tabs) THEN "exit" ELSE "main"
    /\ exitKind' = IF ti + 1 > Len(tabs) THEN "done" ELSE "none"

\* try: process_one_tab(sh, tab) / except Exception as e: print(...)
\* for an exception of class kind raised by process_one_tab.
MainExcept(kind) ==
    IF IsException(kind)
    THEN /\ printed' = printed \cup {ti}
         /\ Leave
    ELSE /\ printed' = printed
         /\ ti' = ti
         /\ pc' = "exit"
         /\ exitKind' = kind

FreshLocals ==
    /\ jobs' = <<>>
    /\ ji' = 1
    /\ results' = NoRows
    /\ queue' = <<>>
    /\ chk' = NoRows
    /\ yielded' = {}
    /\ attemptLog' = NoRows

\* process_one_tab up to the choice of the log column: the sheet is read, an
\* empty sheet is skipped, a sheet without header row raises SystemExit.
OpenTab ==
    /\ pc = "main"
    /\ ti <= Len(tabs)
    /\ invoked' = invoked \cup {ti}
    /\ FreshLocals
    /\ UNCHANGED <<lockVars, extractVars, MAX_WORKERS, tabs, sheet, cycle, sessions>>
    /\ LET vals == sheet[tabs[ti]] IN
       IF vals = <<>>
       THEN /\ Leave
            /\ all_vals' = vals
            /\ header_row' = 0
            /\ cols' = NoCols
            /\ UNCHANGED <<log_col, printed, allocs>>
       ELSE IF ~HasHeader(vals)
       THEN /\ MainExcept("SystemExit")
            /\ all_vals' = vals
            /\ header_row' = 0
            /\ cols' = NoCols
            /\ UNCHANGED <<log_col, allocs>>
       ELSE /\ all_vals' = vals
            /\ header_row' = find_header_row(vals)
            /\ cols' = find_columns(vals)
            /\ log_col' = first_empty_log_column(vals, cols'.longitude + 1)
            /\ allocs' = [allocs EXCEPT ![tabs[ti]] =
                              Append(@, [col |-> log_col', stamped |-> 0])]
            /\ pc' = "stamp1"
            /\ UNCHANGED <<ti, printed, exitKind>>

\* A call of the spreadsheet API fails (the store is unreachable): worksheet()
\* and get_all_values() at the start, update_cell() when stamping.
SheetCallFails ==
    /\ \/ /\ pc = "main"
          /\ ti <= Len(tabs)
          /\ invoked' = invoked \cup {ti}
       \/ /\ pc \in {"stamp1", "stamp2"}
          /\ invoked' = invoked
    /\ MainExcept("APIError")
    /\ UNCHANGED <<lockVars, extractVars, MAX_WORKERS, tabs, sheet, cycle, all_vals, header_row, cols, log_col, jobs, ji, results,
                   queue, chk, yielded, sessions, attemptLog, allocs>>

\* ws.update_cell(1, log_col, now_date_str())
StampDate ==
    /\ pc = "stamp1"
    /\ sheet' = [sheet EXCEPT ![tabs[ti]] = update_cell(@, 1, log_col, Today)]
    /\ pc' = "stamp2"
    /\ allocs' = [allocs EXCEPT ![tabs[ti]][Len(allocs[tabs[ti]])].stamped = 1]
    /\ UNCHANGED <<lockVars, extractVars, MAX_WORKERS, tabs, cycle, ti, all_vals, header_row, cols, log_col, jobs, ji, results, queue,
                   chk, yielded, sessions, printed, exitKind, attemptLog, invoked>>

\* ws.update_cell(2, log_col, now_time_str()), then the jobs are built from the
\* grid read at the start and the pool is entered.
StampTime ==
    /\ pc = "stamp2"
    /\ sheet' = [sheet EXCEPT ![tabs[ti]] = update_cell(@, 2, log_col, NowTime)]
    /\ jobs' = BuildJobs(all_vals, header_row, cols)
    /\ pc' = IF jobs' = <<>> THEN "collect" ELSE "submit"
    /\ ji' = 1
    /\ results' = NoRows
    /\ allocs' = [allocs EXCEPT ![tabs[ti]][Len(allocs[tabs[ti]])].stamped = 2]
    /\ UNCHANGED <<lockVars, extractVars, MAX_WORKERS, tabs, cycle, ti, all_vals, header_row, cols, log_col, queue, chk, yielded,
                   sessions, printed, exitKind, attemptLog, invoked>>

Preresolved_mut(res, r, text) == res

\* results[r] = payload, for a payload that is already a message
Preresolved(res, r, text) == (r :> text) @@ res

\* One round of the submit loop: a tuple payload is submitted to the pool, a
\* message goes to results at once.
Submit ==
    /\ pc = "submit"
    /\ ji <= Len(jobs)
    /\ LET r == jobs[ji].row
           payload == jobs[ji].payload
       IN IF payload.tuple
          THEN /\ queue' = Append(queue, r)
               /\ chk' = (r :> [st |-> "queued", attempt |-> 1, agg |-> payload.agg,
                                url |-> payload.link, fut |-> "pending", value |-> <<>>])
                         @@ chk
               /\ attemptLog' = (r :> <<>>) @@ attemptLog
               /\ results' = results
          ELSE /\ results' = Preresolved(results, r, payload.text)
               /\ UNCHANGED <<queue, chk, attemptLog>>
    /\ ji' = ji + 1
    /\ pc' = IF ji = Len(jobs) THEN "collect" ELSE "submit"
    /\ UNCHANGED <<lockVars, extractVars, MAX_WORKERS, tabs, sheet, cycle, ti, all_vals, header_row, cols, log_col, jobs, yielded,
                   sessions, printed, exitKind, invoked, allocs>>

\* A worker thread of the pool is free to take the next queued check.
CanStart == queue # <<>> /\ Cardinality(Running) < MAX_WORKERS

\* A pool thread takes the oldest queued check and enters scrape_store.
StartCheck ==
    /\ pc \in {"submit", "collect"}
    /\ CanStart
    /\ LET r == Head(queue) IN
       /\ queue' = Tail(queue)
       /\ chk' = [chk EXCEPT ![r].st = "driver", ![r].url = NormalizeUrl(@)]
    /\ UNCHANGED <<lockVars, extractVars, MAX_WORKERS, tabs, sheet, cycle, pc, ti, all_vals, header_row, cols, log_col, jobs, ji,
                   results, yielded, sessions, printed, exitKind, attemptLog, invoked, allocs>>

\* make_driver() of an attempt: uc.Chrome() fails and no session exists; or
\* the session is open and set_page_load_timeout() fails, which leaves
\* make_driver before scrape_store's try block is entered; or the driver is
\* returned.
MakeDriver(r) ==
    /\ pc \in {"submit", "collect"}
    /\ r \in DOMAIN chk
    /\ chk[r].st = "driver"
    /\ \E how \in {"launch_error", "config_error", "ok"} :
         /\ attemptLog' = IF how = "ok" THEN attemptLog
                          ELSE [attemptLog EXCEPT ![r] = Append(@, [ok |-> FALSE, text |-> <<>>])]
         /\ sessions' = IF how = "launch_error" THEN sessions ELSE sessions \cup {Sid(r)}
         /\ chk' = [chk EXCEPT ![r] = IF how = "ok" THEN [@ EXCEPT !.st = "page"]
                                      ELSE AfterFailure(@)]
    /\ UNCHANGED <<lockVars, extractVars, MAX_WORKERS, tabs, sheet, cycle, pc, ti, all_vals, header_row, cols, log_col, jobs, ji,
                   results, queue, yielded, printed, exitKind, invoked, allocs>>

\* finally: driver.quit(), on every way out of the try block.
Quit(open, sid) == open \ {sid}

\* The try block of scrape_store and its finally: the page load or the
\* extraction raises (an Exception, which tenacity retries), or the compact
\* string is returned; a readiness timeout is swallowed.  The driver is quit
\* either way.
FinishAttempt(r) ==
    /\ pc \in {"submit", "collect"}
    /\ r \in DOMAIN chk
    /\ chk[r].st = "page"
    /\ \E how \in {"load_error", "extract_error", "ok", "ok_after_ready_timeout"} :
         \E pg \in Pages :
           LET failed == how \in {"load_error", "extract_error"}
               text == IF failed THEN <<>> ELSE Compact(chk[r].agg, pg)
           IN /\ attemptLog' = [attemptLog EXCEPT ![r] =
                                   Append(@, [ok |-> ~failed, text |-> text])]
              /\ sessions' = Quit(sessions, Sid(r))
              /\ chk' = [chk EXCEPT ![r] =
                           IF failed THEN AfterFailure(@)
                           ELSE [@ EXCEPT !.st = "done", !.fut = "result", !.value = text]]
    /\ UNCHANGED <<lockVars, extractVars, MAX_WORKERS, tabs, sheet, cycle, pc, ti, all_vals, header_row, cols, log_col, jobs, ji,
                   results, queue, yielded, printed, exitKind, invoked, allocs>>

Outcome_mut(c) == c.value

\* compact = fut.result(), or "Error: <class name>" for a caught exception.
Outcome(c) == IF c.fut = "result" THEN c.value ELSE <<"Error:", " ">> \o c.value

Record_over(res, r, v) == [x \in DOMAIN res \cup {r} |-> v]

Record_mut(res, r, v) == ((Cardinality(DOMAIN res) + 1) :> v) @@ res

\* results[r] = compact
Record(res, r, v) == (r :> v) @@ res

\* One round of the as_completed loop: a finished future is yielded and its
\* outcome stored under its row.
Collect(r) ==
    /\ pc = "collect"
    /\ r \in DOMAIN chk
    /\ r \notin yielded
    /\ chk[r].st = "done"
    /\ results' = Record(results, r, Outcome(chk[r]))
    /\ yielded' = yielded \cup {r}
    /\ UNCHANGED <<lockVars, extractVars, MAX_WORKERS, tabs, sheet, cycle, pc, ti, all_vals, header_row, cols, log_col, jobs, ji,
                   queue, chk, sessions, printed, exitKind, attemptLog, invoked, allocs>>

\* as_completed is exhausted and the with block is left.
EndCollect_mut ==
    /\ pc = "collect"
    /\ pc' = "persist"
    /\ UNCHANGED <<lockVars, extractVars, MAX_WORKERS, tabs, sheet, cycle, ti, all_vals, header_row, cols, log_col, jobs, ji, results,
                   queue, chk, yielded, sessions, printed, exitKind, attemptLog, invoked, allocs>>

\* The as_completed loop ends when every submitted future has been yielded;
\* the pool's shutdown returns at once because every check is done.
EndCollect ==
    /\ pc = "collect"
    /\ yielded = DOMAIN chk
    /\ pc' = "persist"
    /\ UNCHANGED <<lockVars, extractVars, MAX_WORKERS, tabs, sheet, cycle, ti, all_vals, header_row, cols, log_col, jobs, ji, results,
                   queue, chk, yielded, sessions, printed, exitKind, attemptLog, invoked, allocs>>

RECURSIVE SortedRows(_)
\* sorted(results.items()): the rows in increasing order
SortedRows(S) ==
    IF S = {} THEN <<>>
    ELSE LET m == CHOOSE x \in S : \A y \in S : x <= y IN <<m>> \o SortedRows(S \ {m})

Updates(res, col) ==
    LET rows == SortedRows(DOMAIN res)
    IN [k \in 1..Len(rows) |-> [row |-> rows[k], col |-> col, value |-> res[rows[k]]]]

\* The batch update of the tab's column, then the tab is done.
Persist ==
    /\ pc = "persist"
    /\ sheet' = [sheet EXCEPT ![tabs[ti]] = batch_update(@, Updates(results, log_col))]
    /\ Leave
    /\ UNCHANGED <<lockVars, extractVars, MAX_WORKERS, tabs, cycle, all_vals, header_row, cols, log_col, jobs, ji, results, queue, chk,
                   yielded, sessions, printed, attemptLog, invoked, allocs>>

\* ws.batch_update raises: nothing is written, main() logs the tab as failed.
PersistFails ==
    /\ pc = "persist"
    /\ Updates(results, log_col) # <<>>
    /\ MainExcept("APIError")
    /\ UNCHANGED <<lockVars, extractVars, MAX_WORKERS, tabs, sheet, cycle, all_vals, header_row, cols, log_col, jobs, ji, results,
                   queue, chk, yielded, sessions, attemptLog, invoked, allocs>>

\* The periodic runner starts the tracker again: a new process, the same
\* spreadsheet.
NewCycle ==
    /\ pc = "exit"
    /\ cycle < MaxCycles
    /\ cycle' = cycle + 1
    /\ pc' = "main"
    /\ ti' = 1
    /\ exitKind' = "none"
    /\ sessions' = {}
    /\ printed' = {}
    /\ invoked' = {}
    /\ all_vals' = <<>>
    /\ header_row' = 0
    /\ cols' = NoCols
    /\ log_col' = 0
    /\ FreshLocals
    /\ UNCHANGED <<lockVars, extractVars, MAX_WORKERS, tabs, sheet, allocs>>

TrackerNext ==
    \/ OpenTab
    \/ SheetCallFails
    \/ StampDate
    \/ StampTime
    \/ Submit
    \/ StartCheck
    \/ \E r \in DOMAIN chk : MakeDriver(r)
    \/ \E r \in DOMAIN chk : FinishAttempt(r)
    \/ \E r \in DOMAIN chk : Collect(r)
    \/ EndCollect
    \/ Persist
    \/ PersistFails

\* The runners before their first cycle, no marker present.
LockIdle ==
    /\ runner = [p \in 1..NumRunners |-> [pc |-> "acquire", last |-> "none", removed |-> FALSE]]
    /\ lock = [exists |-> FALSE, mtime |-> 0]
    /\ clock = 0

\* The runners start while the marker of an earlier runner, killed during its
\* run, is still on disk.
LockLeftBehind ==
    /\ runner = [p \in 1..NumRunners |-> [pc |-> "acquire", last |-> "none", removed |-> FALSE]]
    /\ lock = [exists |-> TRUE, mtime |-> 0]
    /\ clock = 0

\* No extraction is under way.
ExtractIdle ==
    /\ page = [status |-> <<>>, eta |-> <<>>, sold |-> <<>>]
    /\ aggregator = <<"Swiggy">>
    /\ xpc = "loaded"
    /\ status_texts = <<>>
    /\ eta_texts = <<>>
    /\ sold_out = 0
    /\ status = <<>>
    /\ eta = <<>>
    /\ compact = <<>>

\* MAX_WORKERS = max(1, int(os.getenv("MAX_WORKERS", "5")))
MaxWorkersOf(cfg) == Max(1, cfg)

\* The state of a tracker process at the start of main().
TrackerStart ==
    /\ cycle = 1
    /\ pc = "main"
    /\ ti = 1
    /\ all_vals = <<>>
    /\ header_row = 0
    /\ cols = NoCols
    /\ log_col = 0
    /\ jobs = <<>>
    /\ ji = 1
    /\ results = NoRows
    /\ queue = <<>>
    /\ chk = NoRows
    /\ yielded = {}
    /\ sessions = {}
    /\ printed = {}
    /\ exitKind = "none"
    /\ attemptLog = NoRows
    /\ invoked = {}
    /\ allocs = [t \in TabNames |-> <<>>]

TrackerInit ==
    /\ \E cfg \in 0..MaxConfigured : MAX_WORKERS = MaxWorkersOf(cfg)
    /\ sheet \in [TabNames -> SampleGrids]
    /\ TrackerStart

Init ==
    /\ TrackerInit
    /\ tabs = <<"T1", "T2">>
    /\ LockIdle
    /\ ExtractIdle

Next == TrackerNext

\* One run of the tracker over the tabs T1, T2.
Spec == Init /\ [][Next]_vars

CycleInit ==
    /\ TrackerInit
    /\ tabs = <<"T1">>
    /\ sheet["T2"] = GridEmpty
    /\ LockIdle
    /\ ExtractIdle

CycleNext == TrackerNext \/ NewCycle

\* Successive runs of the tracker over the one tab T1.
CycleSpec == CycleInit /\ [][CycleNext]_vars

\* ------------------------------------- the periodic runner and its lock

\* A marker is stale when older than 2 hours; the clock counts hours.
StaleHours == 2

Runners == 1..NumRunners

At(p, where) == runner[p].pc = where

Goto(p, where) == runner' = [runner EXCEPT ![p].pc = where]

\* Time passes.
Tick ==
    /\ clock < MaxClock
    /\ clock' = clock + 1
    /\ UNCHANGED <<trackerVars, extractVars, runner, lock>>

\* acquire_lock, os.open(LOCKFILE, O_CREAT | O_EXCL | O_WRONLY): the marker is
\* created and True returned, or FileExistsError leads to the staleness test.
TryCreate(p) ==
    /\ At(p, "acquire")
    /\ IF lock.exists
       THEN /\ Goto(p, "stat")
            /\ lock' = lock
       ELSE /\ Goto(p, "run")
            /\ lock' = [exists |-> TRUE, mtime |-> clock]
    /\ UNCHANGED <<trackerVars, extractVars, clock>>

\* (time.time() - mtime) > 2 * 3600
IsStale(mtime) == clock - mtime > StaleHours

\* LOCKFILE.stat() and the age test: a marker that is gone meanwhile makes
\* acquire_lock start over; a stale one is to be removed; a young one makes
\* acquire_lock return False and main() skip the cycle.
StatMarker(p) ==
    /\ At(p, "stat")
    /\ IF ~lock.exists THEN Goto(p, "acquire")
       ELSE IF IsStale(lock.mtime) THEN Goto(p, "unlink")
       ELSE Goto(p, "sleep")
    /\ UNCHANGED <<trackerVars, extractVars, lock, clock>>

\* LOCKFILE.unlink(missing_ok=True) of the stale branch; the runner's record
\* notes whether this call found a marker to remove.
UnlinkStale(p) ==
    /\ At(p, "unlink")
    /\ lock' = [lock EXCEPT !.exists = FALSE]
    /\ runner' = [runner EXCEPT ![p].pc = "reopen", ![p].removed = lock.exists]
    /\ UNCHANGED <<trackerVars, extractVars, clock>>

\* The second os.open(O_CREAT | O_EXCL) of the stale branch: the marker is
\* created and True returned; when another runner created it meanwhile, the
\* FileExistsError is raised inside the handler, leaves acquire_lock and
\* main(), and the runner process ends.
Recreate(p) ==
    /\ At(p, "reopen")
    /\ IF lock.exists
       THEN /\ Goto(p, "crashed")
            /\ lock' = lock
       ELSE /\ Goto(p, "run")
            /\ lock' = [exists |-> TRUE, mtime |-> clock]
    /\ UNCHANGED <<trackerVars, extractVars, clock>>

\* run_once() ends: the tracker subprocess exited with status 0 or not, or
\* could not be started (the exception is logged inside run_once).
RunOnce(p) ==
    /\ At(p, "run")
    /\ \E how \in {"exit0", "exit1", "spawn_error"} :
         runner' = [runner EXCEPT ![p].pc = "release", ![p].last = how]
    /\ UNCHANGED <<trackerVars, extractVars, lock, clock>>

\* finally: release_lock(), LOCKFILE.unlink(missing_ok=True)
ReleaseLock(p) ==
    /\ At(p, "release")
    /\ lock' = [lock EXCEPT !.exists = FALSE]
    /\ Goto(p, "sleep")
    /\ UNCHANGED <<trackerVars, extractVars, clock>>

\* sleep_until_next_slot() returns and the loop of main() starts over.
NextSlot(p) ==
    /\ At(p, "sleep")
    /\ runner' = [runner EXCEPT ![p].pc = "acquire", ![p].removed = FALSE]
    /\ UNCHANGED <<trackerVars, extractVars, lock, clock>>

\* The runner process is killed during a run: the marker stays behind.
Killed(p) ==
    /\ At(p, "run")
    /\ Goto(p, "dead")
    /\ UNCHANGED <<trackerVars, extractVars, lock, clock>>

LockNext ==
    \/ Tick
    \/ \E p \in Runners : TryCreate(p)
    \/ \E p \in Runners : StatMarker(p)
    \/ \E p \in Runners : UnlinkStale(p)
    \/ \E p \in Runners : Recreate(p)
    \/ \E p \in Runners : RunOnce(p)
    \/ \E p \in Runners : ReleaseLock(p)
    \/ \E p \in Runners : NextSlot(p)
    \/ \E p \in Runners : Killed(p)

LockInit ==
    /\ MAX_WORKERS = MaxWorkersOf(1)
    /\ tabs = <<"T1", "T2">>
    /\ sheet = [t \in TabNames |-> GridEmpty]
    /\ TrackerStart
    /\ (LockIdle \/ LockLeftBehind)
    /\ ExtractIdle

\* The periodic runners sharing one lock marker.
LockSpec == LockInit /\ [][LockNext]_vars

\* ------------------------------------------- the extraction of one page

MaxStatusElems == 2
MaxEtaElems == 2
MaxSoldElems == 3

\* "Opens at 9:00 PM"
T_OpensAt ==
    <<"O", "p", "e", "n", "s", " ", "a", "t", " ", "9", ":", "0", "0", " ", "P", "M">>

\* "Temporarily CLOSED"
T_Closed ==
    <<"T", "e", "m", "p", "o", "r", "a", "r", "i", "l", "y", " ", "C", "L", "O", "S", "E", "D">>

\* "Currently not accepting orders"
T_NotAccepting ==
    <<"C", "u", "r", "r", "e", "n", "t", "l", "y", " ", "n", "o", "t", " ", "a", "c", "c", "e",
      "p", "t", "i", "n", "g", " ", "o", "r", "d", "e", "r", "s">>

\* "Open now"
T_OpenNow ==
    <<"O", "p", "e", "n", " ", "n", "o", "w">>

\* "25-30 mins"
T_Eta ==
    <<"2", "5", "-", "3", "0", " ", "m", "i", "n", "s">>

\* "  20 MINS "
T_EtaPadded ==
    <<" ", " ", "2", "0", " ", "M", "I", "N", "S", " ">>

\* "Sold out"
T_SoldOut ==
    <<"S", "o", "l", "d", " ", "o", "u", "t">>

\* "Unavailable"
T_Unavailable ==
    <<"U", "n", "a", "v", "a", "i", "l", "a", "b", "l", "e">>

StatusVocab == {T_OpensAt, T_Closed, T_NotAccepting, T_OpenNow, T_Eta}
EtaVocab == {T_Eta, T_EtaPadded, T_OpensAt}
SoldVocab == {T_SoldOut, T_Unavailable}

SeqsUpTo(V, n) == UNION {[1..k -> V] : k \in 0..n}

\* The fragments and the sold-out elements of the examples of the contract
ExampleFrags == <<T_OpensAt, T_Eta>>
ExampleSold == <<T_SoldOut, T_SoldOut, T_Unavailable>>

\* The pages examined: each group of locators in turn finds every list of
\* elements up to its bound, the other two groups nothing or an example.
PageInputs ==
    [status : SeqsUpTo(StatusVocab, MaxStatusElems),
     eta    : {<<>>, ExampleFrags},
     sold   : {<<>>, ExampleSold}]
    \cup
    [status : {<<>>, ExampleFrags},
     eta    : SeqsUpTo(EtaVocab, MaxEtaElems),
     sold   : {<<>>, ExampleSold}]
    \cup
    [status : {<<>>, ExampleFrags},
     eta    : {<<>>, ExampleFrags},
     sold   : SeqsUpTo(SoldVocab, MaxSoldElems)]

\* A page is loaded: for each group of locators, the texts of the elements it
\* finds, in document order.
ExtractInit ==
    /\ MAX_WORKERS = MaxWorkersOf(1)
    /\ tabs = <<"T1", "T2">>
    /\ sheet = [t \in TabNames |-> GridEmpty]
    /\ TrackerStart
    /\ LockIdle
    /\ page \in PageInputs
    /\ aggregator \in {<<"Swiggy">>, <<"Zomato">>}
    /\ xpc = "loaded"
    /\ status_texts = <<>>
    /\ eta_texts = <<>>
    /\ sold_out = 0
    /\ status = <<>>
    /\ eta = <<>>
    /\ compact = <<>>

IsSwiggy(agg) == Head(lower(agg)) = "swiggy"

\* The extract_texts calls of scrape_store; the sold-out count is taken on
\* the Swiggy branch only.
ExtractTexts ==
    /\ xpc = "loaded"
    /\ status_texts' = extract_texts(page.status, DefaultMaxElems)
    /\ eta_texts' = extract_texts(page.eta, DefaultMaxElems)
    /\ sold_out' = IF IsSwiggy(aggregator)
                   THEN Len(extract_texts(page.sold, SoldOutMaxElems)) ELSE 0
    /\ xpc' = "extracted"
    /\ UNCHANGED <<trackerVars, lockVars, page, aggregator, status, eta, compact>>

\* status, eta and the compact string scrape_store returns
Summarize ==
    /\ xpc = "extracted"
    /\ status' = infer_status(status_texts)
    /\ eta' = parse_eta_from_text(eta_texts)
    /\ compact' = Compact(aggregator, [status |-> status', eta |-> eta', sold_out |-> sold_out])
    /\ xpc' = "done"
    /\ UNCHANGED <<trackerVars, lockVars, page, aggregator, status_texts, eta_texts, sold_out>>

ExtractNext == ExtractTexts \/ Summarize

\* The extraction part of scrape_store over a loaded page.
ExtractSpec == ExtractInit /\ [][ExtractNext]_vars

\* ----------------------------------------------------------------- claims

ErrorText(kind) == <<"Error:", " ", kind>>

AllFailed(log) == Len(log) = RetryBudget /\ \A i \in 1..Len(log) : ~log[i].ok

\* What a check's own attempts decide: the text of the first attempt that
\* succeeded, the error text when none did.
OwnOutcome(log) ==
    IF \E i \in 1..Len(log) : log[i].ok
    THEN log[CHOOSE i \in 1..Len(log) : log[i].ok /\ \A k \in 1..(i - 1) : ~log[k].ok].text
    ELSE ErrorText("RetryError")

\* C1: when the parallel section of process_one_tab has finished, the keys of
\* the result map are exactly the row ids of the tab's jobs, each row id being
\* the id of one job only.
C1_KeySetIsRowSet ==
    pc = "persist" =>
        /\ DOMAIN results = JobRows(jobs)
        /\ Cardinality(JobRows(jobs)) = Len(jobs)
        /\ JobRows(jobs) = Max(3, header_row + 1)..Len(all_vals)

\* C1 witness: a finished parallel section with a message row, a check that
\* failed and a check that succeeded, on a pool of one worker.
C1_Witness ==
    /\ pc = "persist"
    /\ MAX_WORKERS = 1
    /\ DOMAIN results # DOMAIN chk
    /\ \E r \in DOMAIN chk : chk[r].fut = "exception"
    /\ \E r \in DOMAIN chk : chk[r].fut = "result"

\* C2: a check whose attempts all failed gives its row "Error: <kind>"; the
\* orchestration goes on (nothing is raised to main, and a step is possible
\* until every check is done), and every row gets the outcome its own attempts
\* decide.
C2_FailureIsolated ==
    /\ \A r \in yielded : AllFailed(attemptLog[r]) => results[r] = ErrorText("RetryError")
    /\ (pc \in {"submit", "collect"} /\ \E r \in DOMAIN chk : chk[r].fut = "exception") =>
          /\ ENABLED TrackerNext
          /\ exitKind = "none"
          /\ ti \notin printed
    /\ pc = "persist" =>
          \A r \in DOMAIN chk : chk[r].st = "done" /\ results[r] = OwnOutcome(attemptLog[r])

\* C2 witness: the section has finished, one check failed on both attempts and
\* another one succeeded at once.
C2_Witness ==
    /\ pc = "persist"
    /\ \E r \in DOMAIN chk : AllFailed(attemptLog[r]) /\ results[r] = ErrorText("RetryError")
    /\ \E r \in DOMAIN chk : Len(attemptLog[r]) = 1 /\ results[r] = attemptLog[r][1].text

\* C3: a check never ends after a single failed attempt, and when the second
\* attempt succeeds its status string is the outcome of the row.
C3_RetrySucceeds ==
    \A r \in DOMAIN chk :
        LET log == attemptLog[r] IN
        /\ (chk[r].st = "done" /\ Len(log) >= 1 /\ ~log[1].ok) => Len(log) = 2
        /\ (chk[r].st = "done" /\ Len(log) = 2 /\ ~log[1].ok /\ log[2].ok) =>
              /\ chk[r].fut = "result"
              /\ chk[r].value = log[2].text
              /\ r \in yielded => (results[r] = log[2].text /\ Head(results[r]) # "Error:")

\* C3 witness: a collected row whose first attempt failed and second succeeded.
C3_Witness ==
    \E r \in yielded :
        /\ Len(attemptLog[r]) = 2
        /\ ~attemptLog[r][1].ok
        /\ attemptLog[r][2].ok
        /\ results[r] = attemptLog[r][2].text

\* The rows of the grid read at the start whose aggregator or link cell is
\* blank after trimming.
BlankRows ==
    IF header_row = 0 THEN {}
    ELSE {r \in Max(3, header_row + 1)..Len(all_vals) :
            \/ strip(CellAt(all_vals, r, cols.aggregator)) = <<>>
            \/ strip(CellAt(all_vals, r, cols.link)) = <<>>}

\* C4: a row whose aggregator or link is blank after trimming is never
\* submitted to the pool, no attempt is made and no session is opened for it,
\* and from the submit loop on its outcome is "Missing link/aggregator".
C4_BlankRowNeverFetched ==
    LET blank == BlankRows IN
    \A r \in blank :
        /\ r \notin DOMAIN chk
        /\ r \notin DOMAIN attemptLog
        /\ \A k \in 1..Len(queue) : queue[k] # r
        /\ \A s \in sessions : ~(s[1] = ti /\ s[2] = r)
        /\ \A k \in 1..Len(jobs) : (jobs[k].row = r /\ k < ji) => results[r] = Missing
        /\ pc = "persist" => results[r] = Missing

\* C4 witness: a tab has finished its checks with a blank row beside a row
\* that was fetched.
C4_Witness ==
    /\ pc = "persist"
    /\ DOMAIN chk # {}
    /\ \E r \in BlankRows :
          /\ results[r] = Missing
          /\ CellAt(all_vals, r, cols.link) = <<WS>>

\* The bound of the pool itself: at most MAX_WORKERS checks execute, and
\* MAX_WORKERS is at least 1.
PoolBound == MAX_WORKERS >= 1 /\ Cardinality(Running) <= MAX_WORKERS

\* C5: at every moment of a tab's orchestration at most MAX_WORKERS (>= 1)
\* checks execute and at most MAX_WORKERS fetch sessions of the tab are open.
C5_AtMostNExecuting ==
    /\ PoolBound
    /\ Cardinality({s \in sessions : s[1] = ti}) <= MAX_WORKERS

\* C6: the failure of a tab does not stop the run: when main() has ended,
\* process_one_tab has been called for every tab of the list.
C6_LaterTabsProcessed == pc = "exit" => invoked = 1..Len(tabs)

\* C7: at most one periodic runner is inside a tracker run (after a successful
\* acquire_lock, before its release_lock) at any time.
C7_MutualExclusion == Cardinality({p \in Runners : At(p, "run") \/ At(p, "release")}) <= 1

\* C8: a session is open only while the attempt that opened it is inside
\* scrape_store's try block, and none of a tab's sessions is open once the
\* tab's parallel section has finished.
C8_SessionsReleased ==
    /\ \A s \in sessions :
          /\ s[1] = ti
          /\ s[2] \in DOMAIN chk
          /\ chk[s[2]].st = "page"
          /\ chk[s[2]].attempt = s[3]
    /\ pc = "persist" => sessions = {}

\* C9: outside a tab's parallel section no check executes and no session is
\* open, and the sessions open in the process are those of the current tab,
\* at most one pool's worth.
C9_OneTabAtATime ==
    /\ pc \notin {"submit", "collect"} => (Running = {} /\ queue = <<>>)
    /\ \A r \in DOMAIN chk : r \in JobRows(jobs)
    /\ \A s \in sessions : s[1] = ti
    /\ Cardinality(sessions) <= MAX_WORKERS

\* The sequential part of C9 alone: checks execute only inside the parallel
\* section of the one tab main() is processing.
SequentialTabs ==
    /\ pc \notin {"submit", "collect"} => (Running = {} /\ queue = <<>>)
    /\ \A r \in DOMAIN chk : r \in JobRows(jobs)

\* The cells of column c of a worksheet, rows 1..n
ColumnCells(grid, c, n) == [r \in 1..n |-> CellAt(grid, r, c)]

\* C10 (state part): of two successive allocations of a tab, the later one
\* selects the same column when nothing was stamped in between, and every
\* allocation after a full stamp selects a column strictly to the right.
C10_Allocation ==
    \A t \in TabNames :
        \A i \in 1..Len(allocs[t]) : \A j \in 1..Len(allocs[t]) :
            /\ (j = i + 1 /\ allocs[t][i].stamped = 0) => allocs[t][j].col = allocs[t][i].col
            /\ (i < j /\ allocs[t][i].stamped = 2) => allocs[t][j].col > allocs[t][i].col

\* C10 (step part): no step changes a cell of a column stamped by an earlier
\* allocation.
C10_NoOverwrite ==
    \A t \in TabNames :
        \A i \in 1..(Len(allocs[t]) - 1) :
            allocs[t][i].stamped = 2 =>
                ColumnCells(sheet'[t], allocs[t][i].col, Len(sheet'[t]))
                    = ColumnCells(sheet[t], allocs[t][i].col, Len(sheet'[t]))

\* C10: log-column allocation is repeatable before stamping and strictly
\* increasing after it, and a prior cycle's column is never written again.
C10_ColumnsIncrease == []C10_Allocation /\ [][C10_NoOverwrite]_vars

\* C10 witness: the tracker has run twice over a tab, both runs stamped their
\* column, and the second run's column lies to the right of the first's.
C10_Witness ==
    \E t \in TabNames :
        /\ Len(allocs[t]) = 2
        /\ allocs[t][1].stamped = 2
        /\ allocs[t][2].col > allocs[t][1].col
        /\ allocs[t][2].stamped = 2
        /\ pc = "exit"

\* What the inputs of a tab decide for row k-th job: the message of a message
\* job, else what the check's own attempts decide.  Neither the pool size nor
\* the order of completion occurs in it.
ExpectedOutcome(k) ==
    IF jobs[k].payload.tuple THEN OwnOutcome(attemptLog[jobs[k].row]) ELSE Missing

\* The batch the inputs decide: one cell per job, in row order, in the log column.
ExpectedBatch ==
    [k \in 1..Len(jobs) |-> [row |-> jobs[k].row, col |-> log_col, value |-> ExpectedOutcome(k)]]

\* C11: the outcome of every row and the batch written back are functions of
\* the jobs and of each job's own sequence of fetch results: whatever the pool
\* size and the order of completion, every stored outcome is the expected one
\* and the batch of a finished tab is the expected batch.
C11_OrderIndependent ==
    /\ \A k \in 1..Len(jobs) :
          jobs[k].row \in DOMAIN results => results[jobs[k].row] = ExpectedOutcome(k)
    /\ pc = "persist" => Updates(results, log_col) = ExpectedBatch

\* C11 witness: on a pool of two workers the check submitted second has been
\* collected, with a retry behind it, while the one submitted first is still
\* executing.
C11_Witness ==
    /\ pc = "collect"
    /\ MAX_WORKERS = 2
    /\ \E r1 \in DOMAIN chk : \E r2 \in yielded :
          /\ r1 < r2
          /\ chk[r1].st \in {"driver", "page"}
          /\ Len(attemptLog[r2]) = 2
          /\ results[r2] = OwnOutcome(attemptLog[r2])

\* The phase of process_one_tab a control point belongs to.
Phase(p) ==
    CASE p \in {"stamp1", "stamp2"} -> 1
      [] p \in {"submit", "collect"} -> 2
      [] p = "persist" -> 3
      [] OTHER -> 0

\* The log column of the open tab carries the date and the time of this run.
Stamped ==
    /\ allocs[tabs[ti]][Len(allocs[tabs[ti]])] = [col |-> log_col, stamped |-> 2]
    /\ CellAt(sheet[tabs[ti]], 1, log_col) = Today
    /\ CellAt(sheet[tabs[ti]], 2, log_col) = NowTime

\* Before Orchestrate no check exists and no outcome is known; from Orchestrate
\* on the column is stamped.
C12_StampedFirst ==
    /\ Phase(pc) = 1 => chk = NoRows /\ results = NoRows /\ queue = <<>>
    /\ Phase(pc) \in {2, 3} => Stamped

\* Within a tab the phases only advance, and the sheet is written, apart from
\* the two stamps, by one step only: the batch of a tab all of whose rows have
\* their outcome, after which the tab is left.
C12_OneBatchAtEnd ==
    /\ (ti' = ti /\ Phase(pc) # 0 /\ Phase(pc') # 0) => Phase(pc') >= Phase(pc)
    /\ (Phase(pc) = 3 /\ pc' # pc) => Phase(pc') = 0
    /\ (sheet' # sheet /\ Phase(pc) # 1) =>
          /\ pc = "persist"
          /\ Phase(pc') = 0
          /\ DOMAIN results = JobRows(jobs)
          /\ \A r \in DOMAIN chk : chk[r].st = "done" /\ r \in yielded
          /\ sheet' = [sheet EXCEPT ![tabs[ti]] = batch_update(@, Updates(results, log_col))]

\* C12: within one tab the phases run Prepare, Orchestrate, Persist, none
\* repeated; the log column is chosen and stamped (row 1 date, row 2 time)
\* before any check starts or any outcome is written, and the outcomes are
\* written by one batch issued after every row of the tab has its outcome.
C12_PhaseOrder == []C12_StampedFirst /\ [][C12_OneBatchAtEnd]_vars

\* C12 witness: the first tab has been written back: two rows, one of them
\* checked, stand in its stamped log column.
C12_Witness ==
    /\ pc = "main"
    /\ ti = 2
    /\ Cardinality(DOMAIN results) >= 2
    /\ chk # NoRows
    /\ CellAt(sheet[tabs[1]], 1, log_col) = Today
    /\ \A r \in DOMAIN results : CellAt(sheet[tabs[1]], r, log_col) = results[r]

\* A step of a pool thread: a check moves on, a session is opened or closed.
WorkerStep == chk' # chk /\ DOMAIN chk' = DOMAIN chk

\* C16: while a tab is orchestrated the result map is what the jobs share:
\* a pool thread touches the state of its own check only and never the map;
\* the map changes by the loops of process_one_tab only, one row per step, a
\* row that is not yet in it, and the entries it holds stay as they are.
C16_Inserted ==
    /\ WorkerStep =>
          /\ results' = results
          /\ \E r \in DOMAIN chk :
                /\ \A q \in DOMAIN chk \ {r} : chk'[q] = chk[q]
                /\ \A q \in DOMAIN attemptLog \ {r} : attemptLog'[q] = attemptLog[q]
    /\ (results' # results /\ Phase(pc) = 2) =>
          /\ chk' = chk
          /\ sessions' = sessions
          /\ \E r \in JobRows(jobs) \ DOMAIN results :
                /\ DOMAIN results' = DOMAIN results \cup {r}
                /\ \A q \in DOMAIN results : results'[q] = results[q]
                /\ pc = "collect" => r \in yielded' \ yielded /\ chk[r].st = "done"

C16_InsertOnce == [][C16_Inserted]_vars

\* C16 witness: two checks ran at once on two workers and both outcomes, one
\* of them an error, are in the map next to the message of a third row.
C16_Witness ==
    /\ pc = "collect"
    /\ MAX_WORKERS = 2
    /\ Cardinality(yielded) = 2
    /\ Cardinality(DOMAIN results) = 3
    /\ \E r \in yielded : results[r] = ErrorText("RetryError")
    /\ \E r \in yielded : results[r] # ErrorText("RetryError")

\* The attempts of one check so far: at most RetryBudget, a success only as the last
\* one, an attempt after the first only behind failed ones.
AttemptsInOrder(r) ==
    LET log == attemptLog[r] IN
    /\ chk[r].attempt \in 1..RetryBudget
    /\ Len(log) <= RetryBudget
    /\ \A i \in 1..Len(log) : log[i].ok => i = Len(log) /\ chk[r].st = "done"
    /\ chk[r].st # "done" => Len(log) = chk[r].attempt - 1
    /\ chk[r].st = "done" => Len(log) = chk[r].attempt
    /\ chk[r].st = "page" => Sid(r) \in sessions

C17_Bounded == \A r \in DOMAIN chk : AttemptsInOrder(r)

\* A check that is done stays as it is; an attempt loads the page in the
\* session its own make_driver() has just opened.
C17_Fresh ==
    \A r \in DOMAIN chk \cap DOMAIN chk' :
       /\ (chk[r].st = "done" /\ ti' = ti) => chk'[r] = chk[r]
       /\ (chk'[r].st = "page" /\ chk[r].st # "page") =>
             /\ chk[r].st = "driver"
             /\ chk'[r].attempt = chk[r].attempt
             /\ <<ti, r, chk[r].attempt>> \notin sessions
             /\ sessions' = sessions \cup {<<ti, r, chk[r].attempt>>}

\* C17: a check makes at most 2 attempts, the second only after the first
\* failed, none after a success; each attempt opens a session of its own.
C17_TwoAttempts == []C17_Bounded /\ [][C17_Fresh]_vars

\* C17 witness: the second attempt of a check loads its page in a session of
\* its own after the first attempt failed with the page loaded.
C17_Witness ==
    \E r \in DOMAIN chk :
       /\ chk[r].st = "page"
       /\ chk[r].attempt = 2
       /\ attemptLog[r] = <<[ok |-> FALSE, text |-> <<>>]>>
       /\ <<ti, r, 2>> \in sessions
       /\ <<ti, r, 1>> \notin sessions

RECURSIVE Width(_)
\* The widest row of a worksheet
Width(grid) == IF grid = <<>> THEN 0 ELSE Max(Len(grid[1]), Width(Tail(grid)))

\* The cells in which two states of a worksheet differ
ChangedCells(old, new) ==
    {rc \in (1..Max(Len(old), Len(new))) \X (1..Max(Width(old), Width(new))) :
        CellAt(old, rc[1], rc[2]) # CellAt(new, rc[1], rc[2])}

\* The write-back of a tab changes cells of the log column only, in rows from
\* 3 on that lie below the header row, and it changes no other worksheet.
C20_FrameOfBatch ==
    (pc = "persist" /\ sheet' # sheet) =>
       /\ \A t \in TabNames \ {tabs[ti]} : sheet'[t] = sheet[t]
       /\ \A rc \in ChangedCells(sheet[tabs[ti]], sheet'[tabs[ti]]) :
             /\ rc[2] = log_col
             /\ rc[1] >= 3
             /\ rc[1] > header_row
             /\ CellAt(sheet'[tabs[ti]], rc[1], rc[2]) = results[rc[1]]
       /\ CellAt(sheet'[tabs[ti]], 1, log_col) = Today
       /\ CellAt(sheet'[tabs[ti]], 2, log_col) = NowTime
       /\ row_values(sheet'[tabs[ti]], header_row) = row_values(sheet[tabs[ti]], header_row)

\* C20: outcomes are written only to cells of the log column in rows that are
\* >= 3 and below the header row: the batch leaves the stamps of rows 1 and 2,
\* the header row and every other column as they were.
C20_OnlyLogCells == [][C20_FrameOfBatch]_vars

\* C20 witness: a tab whose header is in row 3 has been written back: the
\* outcomes stand in rows 4 and below of the log column, the stamps above them.
C20_Witness ==
    /\ pc = "main"
    /\ ti = 2
    /\ header_row = 3
    /\ \E r \in DOMAIN results : CellAt(all_vals, r, log_col) # results[r]
    /\ \A r \in DOMAIN results : r > 3 /\ CellAt(sheet[tabs[1]], r, log_col) = results[r]
    /\ CellAt(sheet[tabs[1]], 2, log_col) = NowTime
    /\ CellAt(sheet[tabs[1]], 3, log_col) = CellAt(all_vals, 3, log_col)

\* One step of acquire_lock as the claim describes it: the age test sends a
\* stale marker to its removal and leaves a young one in place, the cycle
\* being skipped; the removal is followed by the creation of the runner's
\* own marker and the return of True.
C18_TakeOver ==
    \A p \in Runners :
       /\ (At(p, "stat") /\ lock.exists /\ runner'[p] # runner[p]) =>
             IF IsStale(lock.mtime)
             THEN runner'[p].pc = "unlink"
             ELSE runner'[p].pc = "sleep" /\ lock' = lock
       /\ (At(p, "unlink") /\ runner'[p] # runner[p]) =>
             runner'[p].pc = "reopen" /\ ~lock'.exists
       /\ (At(p, "reopen") /\ runner'[p] # runner[p]) =>
             runner'[p].pc = "run" /\ lock' = [exists |-> TRUE, mtime |-> clock]

\* C18: a marker older than the 2-hour threshold is removed by the next
\* acquire_lock, which takes the lock and returns True without raising; a
\* younger marker is left in place and the cycle is skipped.
C18_StaleMarkerTakenOver == [][C18_TakeOver]_vars

\* What main() does around a run, and what a runner without the lock does to
\* the marker.
C19_AroundRun ==
    \A p \in Runners :
       /\ (At(p, "run") /\ runner'[p] # runner[p] /\ runner'[p].pc # "dead") =>
             runner'[p].pc = "release" /\ runner'[p].last \in {"exit0", "exit1", "spawn_error"}
       /\ (At(p, "release") /\ runner'[p] # runner[p]) =>
             runner'[p].pc = "sleep" /\ ~lock'.exists
       /\ (At(p, "stat") /\ runner'[p].pc = "sleep") => lock' = lock
       /\ ((At(p, "sleep") \/ (At(p, "acquire") /\ lock.exists)) /\ runner'[p] # runner[p]) =>
             lock' = lock

\* A runner whose acquire_lock ended without the lock has removed no marker.
C19_NoLockNoRemoval == \A p \in Runners : At(p, "crashed") => ~runner[p].removed

\* C19: a runner that acquired the lock removes the marker when its run ends,
\* whatever the outcome of the tracker subprocess; a runner that did not
\* acquire the lock never removes or modifies the marker.
C19_MarkerOnlyByHolder == []C19_NoLockNoRemoval /\ [][C19_AroundRun]_vars

\* Some fragment contains the word, whatever the case of its letters.
HasWord(frags, w) == \E k \in 1..Len(frags) : Contains(lower(frags[k]), w)

ClosedRule(frags) == HasWord(frags, <<"c", "l", "o", "s", "e", "d">>)

NotAcceptingRule(frags) ==
    HasWord(frags, <<"n", "o", "t", " ", "a", "c", "c", "e", "p", "t", "i", "n", "g">>)

\* Some fragment holds "open(s) at" followed by a time text.
OpensAtRule(frags) ==
    \E k \in 1..Len(frags) : \E i \in 1..Len(frags[k]) : OpensAtMatch(lower(frags[k]), i) # <<>>

IsOpensAt(label) == Len(label) >= 4 /\ SubSeq(label, 1, 4) = <<"Opens", " ", "at", " ">>

\* C13: the label is decided by the first rule that matches, in the order
\* Closed, NotAccepting, OpensAt(time), Available: fragments with a match of
\* the "closed" rule yield Closed also when the "opens at" rule matches, and
\* fragments without any recognized status text yield Available.
C13_Priority ==
    xpc = "done" =>
       /\ ClosedRule(status_texts) => status = <<"Closed">>
       /\ (~ClosedRule(status_texts) /\ NotAcceptingRule(status_texts)) =>
             status = <<"Not", " ", "accepting", " ", "orders">>
       /\ (~ClosedRule(status_texts) /\ ~NotAcceptingRule(status_texts)
              /\ OpensAtRule(status_texts)) => IsOpensAt(status)
       /\ (~ClosedRule(status_texts) /\ ~NotAcceptingRule(status_texts)
              /\ ~OpensAtRule(status_texts)) => status = <<"Available">>

\* C13 witness: the fragments hold a closed text and an opens-at text, and the
\* label is Closed.
C13_Witness ==
    /\ xpc = "done"
    /\ ClosedRule(status_texts)
    /\ OpensAtRule(status_texts)
    /\ status = <<"Closed">>

\* The elements a locator group matched that carry a text
Matched(elems) == Len(SelectSeq(elems, LAMBDA t : strip(t) # <<>>))

EndsWith(s, tail) == Len(s) >= Len(tail) /\ SubSeq(s, Len(s) - Len(tail) + 1, Len(s)) = tail

SoldOutSuffix(n) == Bar \o <<"SO:", CountTok(n)>>

\* C14: on the sold-out-count variant the count is the number of matched
\* elements, not of distinct texts: the elements "Sold out", "Sold out",
\* "Unavailable" give 3 and the suffix " | SO:3"; a count of zero gives no
\* suffix.
C14_CountsElements ==
    (xpc = "done" /\ IsSwiggy(aggregator)) =>
       /\ sold_out = Matched(page.sold)
       /\ sold_out > 0 => EndsWith(compact, SoldOutSuffix(Matched(page.sold)))
       /\ sold_out = 0 => ~(\E n \in 0..Len(page.sold) : EndsWith(compact, SoldOutSuffix(n)))
       /\ page.sold = ExampleSold => sold_out = Len(ExampleSold)

\* label, then " | " + eta if present, then " | SO:" + count if count > 0
Rendered(label, e, n) ==
    label \o (IF e # <<>> THEN Bar \o e ELSE <<>>)
          \o (IF n > 0 THEN SoldOutSuffix(n) ELSE <<>>)

\* The fragments of the example have been summarized.
ExampleCase ==
    /\ xpc = "done"
    /\ status_texts = ExampleFrags
    /\ eta_texts = ExampleFrags
    /\ sold_out = 0

C15_Rule == xpc = "done" => compact = Rendered(status, eta, sold_out)

\* "9:00 PM" and "9:00 pm"
TimeAsWritten == <<"9", ":", "0", "0", " ", "P", "M">>
TimeLowered == lower(TimeAsWritten)

\* C15 as stated: the outcome string is the label, " | " + eta when present,
\* " | SO:" + count when the count is positive, and the fragments "Opens at
\* 9:00 PM", "25-30 mins" render as "Opens at 9:00 PM | 25-30 mins".
C15_AsWritten ==
    /\ C15_Rule
    /\ ExampleCase =>
          /\ status = <<"Opens", " ", "at", " ">> \o TimeAsWritten
          /\ eta = T_Eta
          /\ compact = <<"Opens", " ", "at", " ">> \o TimeAsWritten \o Bar \o T_Eta

\* C15 (amended): the outcome string is the label, " | " + eta when present,
\* " | SO:" + count when the count is positive; the OpensAt label carries the
\* time text as captured from the lower-cased fragments, so the fragments
\* "Opens at 9:00 PM", "25-30 mins" render as "Opens at 9:00 pm | 25-30 mins".
C15_Rendering ==
    /\ C15_Rule
    /\ ExampleCase =>
          /\ status = <<"Opens", " ", "at", " ">> \o TimeLowered
          /\ eta = T_Eta
          /\ compact = <<"Opens", " ", "at", " ">> \o TimeLowered \o Bar \o T_Eta

\* C15 witness: the example has been rendered, in lower case.
C15_Witness ==
    /\ ExampleCase
    /\ compact = <<"Opens", " ", "at", " ", "9", ":", "0", "0", " ", "p", "m">> \o Bar \o T_Eta
====
